---- MODULE Spec2Model ----
(***************************************************************************)
(* A model of Scripts/url2md.py: the WebpageToMarkdown converter, its      *)
(* command-line entry point main(), the loop over the URL list that the    *)
(* script runs, and the pure text and document functions they use.         *)
(*                                                                         *)
(* Texts (Markdown content, titles, file names) are sequences of           *)
(* one-character strings.  URLs, document nodes and files are records.     *)
(***************************************************************************)
EXTENDS Integers, Sequences, FiniteSets, TLC

VARIABLES
    args,          \* per call: the command-line arguments of main()
    url,           \* per call: self.url
    pc,            \* per call: position in main() / convert_to_markdown()
    response,      \* per call: the page the server answered with
    soup,          \* per call: the parsed document, a sequence of nodes in document order
    title_text,    \* per call: the extracted title
    ignore_images, \* per call: self.h.ignore_images
    img_i,         \* per call: index of the next image of process_images' loop
    outcome,       \* per call: history, what became of each node's image download
    dirs,          \* filesystem: the directories that exist
    files,         \* filesystem: path -> content
    written,       \* per call: history, the paths it wrote to, in order
    requests,      \* per call: history, the URLs it issued a GET for, in order
    result,        \* per call: what convert_to_markdown returned or raised
    exit_code,     \* per call: the exit status of main(), {} while it runs
    content,       \* the text handed to post_process_markdown (pure-function runs)
    pp_once,       \* post_process_markdown(content)
    pp_twice,      \* post_process_markdown(post_process_markdown(content))
    pp_stage,      \* how many times post_process_markdown has been applied
    nm_in,         \* naming input: [filename, title, urlhash]
    nm_out,        \* naming output: the base name of the output file
    nm_stage,      \* whether the naming has been computed
    dc_in,         \* a parsed page (document-function runs)
    dc_clean,      \* clean_html of its nodes
    dc_main,       \* the nodes of the main content selected from them
    dc_stage,      \* how far the document functions have been applied
    url_list,      \* the (URL, output name) pairs of the script's loop, <<>> in runs of main()
    loop_i,        \* the pair the loop is at
    ended          \* per call: history, how each of its conversions ended: the result,
                   \* and the content saved

vars == <<args, url, pc, response, soup, title_text, ignore_images, img_i, outcome,
          dirs, files, written, requests, result, exit_code,
          content, pp_once, pp_twice, pp_stage, nm_in, nm_out, nm_stage,
          dc_in, dc_clean, dc_main, dc_stage, url_list, loop_i, ended>>

convVars == <<args, url, pc, response, soup, title_text, ignore_images, img_i, outcome,
              dirs, files, written, requests, result, exit_code, url_list, loop_i, ended>>
ppVars == <<content, pp_once, pp_twice, pp_stage>>
nmVars == <<nm_in, nm_out, nm_stage>>
dcVars == <<dc_in, dc_clean, dc_main, dc_stage>>
loopVars == <<url_list, loop_i>>

(***************************************************************************)
(* Bounds of the model.                                                    *)
(***************************************************************************)
MaxTextLen == 6        \* longest text handed to post_process_markdown
MaxTitleTail == 2      \* free characters of a title after its padding
MaxNodes == 2          \* nodes of a served page
MaxElems == 2          \* elements of a page that a content selector or "body" matches
MaxPairs == 2          \* (URL, output name) pairs of the script's loop

(***************************************************************************)
(* Generic sequence helpers.                                               *)
(***************************************************************************)
Min(a, b) == IF a < b THEN a ELSE b

Max(a, b) == IF a > b THEN a ELSE b

Range(s) == {s[i] : i \in 1..Len(s)}

Slice(s, a, b) == IF a > b THEN <<>> ELSE SubSeq(s, a, b)

RECURSIVE SeqsUpTo(_, _)
SeqsUpTo(S, n) ==
    IF n = 0 THEN {<<>>}
    ELSE LET shorter == SeqsUpTo(S, n - 1)
         IN  shorter \cup {Append(s, c) : s \in {t \in shorter : Len(t) = n - 1}, c \in S}

RECURSIVE Repeat(_, _)
Repeat(c, n) == IF n <= 0 THEN <<>> ELSE <<c>> \o Repeat(c, n - 1)

(***************************************************************************)
(* Python's str and re primitives on character sequences.                  *)
(***************************************************************************)
NL == "\n"

\* the characters Python's \s and str.strip() treat as whitespace
Whitespace == {" ", "\n", "\t"}

\* number of consecutive characters of s, from position i on, that lie in S
RECURSIVE RunLen(_, _, _)
RunLen(s, i, S) ==
    IF i > Len(s) \/ s[i] \notin S THEN 0 ELSE 1 + RunLen(s, i + 1, S)

\* number of consecutive characters of s, from position i on, that lie outside S
RECURSIVE RunLenNot(_, _, _)
RunLenNot(s, i, S) ==
    IF i > Len(s) \/ s[i] \in S THEN 0 ELSE 1 + RunLenNot(s, i + 1, S)

\* str.strip(): drop leading and trailing whitespace
Strip(s) ==
    LET lead == RunLen(s, 1, Whitespace)
        last == IF lead = Len(s) THEN 0
                ELSE CHOOSE j \in 1..Len(s) :
                        /\ s[j] \notin Whitespace
                        /\ \A k \in (j + 1)..Len(s) : s[k] \in Whitespace
    IN  Slice(s, lead + 1, last)

(***************************************************************************)
(* post_process_markdown, step by step as re.sub computes it: the leftmost *)
(* match at each position, greedy with backtracking, never overlapping.    *)
(***************************************************************************)

\* re.sub(r'\n{3,}', '\n\n', content)
RECURSIVE CollapseFrom(_, _)
CollapseFrom(s, i) ==
    IF i > Len(s) THEN <<>>
    ELSE LET run == RunLen(s, i, {NL})
         IN  IF run >= 3 THEN <<NL, NL>> \o CollapseFrom(s, i + run)
             ELSE <<s[i]>> \o CollapseFrom(s, i + 1)

CollapseNewlines(s) == CollapseFrom(s, 1)

\* the match of !\[([^\]]*)\]\(([^)]+)\) starting at position i, if any
ImageMatch(s, i) ==
    LET alt_len == RunLenNot(s, i + 2, {"]"})
        close == i + 2 + alt_len               \* where the ] has to be
        url_len == RunLenNot(s, close + 2, {")"})
        end == close + 2 + url_len             \* where the ) has to be
    IN  IF /\ i + 1 <= Len(s) /\ s[i] = "!" /\ s[i + 1] = "["
           /\ close + 1 <= Len(s) /\ s[close] = "]" /\ s[close + 1] = "("
           /\ url_len >= 1
           /\ end <= Len(s) /\ s[end] = ")"
        THEN [ok |-> TRUE, alt |-> Slice(s, i + 2, close - 1),
              url |-> Slice(s, close + 2, end - 1), end |-> end]
        ELSE [ok |-> FALSE, alt |-> <<>>, url |-> <<>>, end |-> 0]

\* re.sub(r'!\[([^\]]*)\]\(([^)]+)\)', r'![\1](\2)', content)
RECURSIVE FixImagesFrom(_, _)
FixImagesFrom(s, i) ==
    IF i > Len(s) THEN <<>>
    ELSE LET m == ImageMatch(s, i)
         IN  IF m.ok
             THEN <<"!", "[">> \o m.alt \o <<"]", "(">> \o m.url \o <<")">>
                  \o FixImagesFrom(s, m.end + 1)
             ELSE <<s[i]>> \o FixImagesFrom(s, i + 1)

FixImages(s) == FixImagesFrom(s, 1)

\* the numbers w of whitespace characters \s+ can take from position w0 so that
\* [^\n]+ still finds a character after them
SpaceChoices(s, w0) ==
    {w \in 1..RunLen(s, w0, Whitespace) : w0 + w <= Len(s) /\ s[w0 + w] # NL}

\* the numbers n of markers \#{1,6} can take from position h so that the rest matches
HashChoices(s, h) ==
    {n \in 1..Min(6, RunLen(s, h, {"#"})) : SpaceChoices(s, h + n) # {}}

SetMax(S) == CHOOSE x \in S : \A y \in S : y <= x

\* the match of (\#{1,6}\s+[^\n]+)(\n)? with the markers starting at position h:
\* every quantifier takes as much as it can
HeadingAt(s, h) ==
    IF HashChoices(s, h) = {} THEN [ok |-> FALSE, from |-> 0, to |-> 0, end |-> 0]
    ELSE LET n == SetMax(HashChoices(s, h))
             w == SetMax(SpaceChoices(s, h + n))
             body == h + n + w
             to == body + RunLenNot(s, body, {NL}) - 1
         IN  [ok |-> TRUE, from |-> h, to |-> to,
              end |-> IF to + 1 <= Len(s) /\ s[to + 1] = NL THEN to + 1 ELSE to]

\* the match of (\n)?(\#{1,6}\s+[^\n]+)(\n)? starting at position i: the optional
\* newline is taken when the heading follows it, and given back otherwise
HeadingMatch(s, i) ==
    IF i <= Len(s) /\ s[i] = NL /\ HeadingAt(s, i + 1).ok
    THEN HeadingAt(s, i + 1)
    ELSE HeadingAt(s, i)

\* re.sub(r'(\n)?(\#{1,6}\s+[^\n]+)(\n)?', r'\n\n\2\n\n', content)
RECURSIVE FixHeadingsFrom(_, _)
FixHeadingsFrom(s, i) ==
    IF i > Len(s) THEN <<>>
    ELSE LET m == HeadingMatch(s, i)
         IN  IF m.ok
             THEN <<NL, NL>> \o Slice(s, m.from, m.to) \o <<NL, NL>>
                  \o FixHeadingsFrom(s, m.end + 1)
             ELSE <<s[i]>> \o FixHeadingsFrom(s, i + 1)

FixHeadings(s) == FixHeadingsFrom(s, 1)

post_process_markdown(s) == Strip(FixHeadings(FixImages(CollapseNewlines(s))))

(***************************************************************************)
(* Naming of the output file (convert_to_markdown, "生成输出文件名").      *)
(***************************************************************************)
TitleMax == 50         \* safe_title is cut to this many characters

HashMod == 10000       \* the fallback name takes hash(url) modulo this

\* the character class of re.sub(r'[<>:"/\\|?*]', '_', title_text)
ForbiddenChars == {"<", ">", ":", "\"", "/", "\\", "|", "?", "*"}

Sanitize(t) == [i \in 1..Len(t) |-> IF t[i] \in ForbiddenChars THEN "_" ELSE t[i]]

\* s[:n]
Truncate(s, n) == Slice(s, 1, Min(n, Len(s)))

DigitChars == <<"0", "1", "2", "3", "4", "5", "6", "7", "8", "9">>

\* str(n) for n >= 0
RECURSIVE Decimal(_)
Decimal(n) ==
    IF n < 10 THEN <<DigitChars[n + 1]>>
    ELSE Decimal(n \div 10) \o <<DigitChars[(n % 10) + 1]>>

DefaultTitle == <<"w", "e", "b", "p", "a", "g", "e">>

FallbackPrefix == <<"w", "e", "b", "p", "a", "g", "e", "_">>

\* title.text.strip() if title else "webpage"
extract_title(title) == IF title.present THEN Strip(title.text) ELSE DefaultTitle

\* a faulty variant: "if self.filename is not None"
filename_not_none(filename) == filename.given

\* "if self.filename": None and the empty string are both false
filename_given(filename) == filename.given /\ filename.name # <<>>

fallback_name(urlhash) == FallbackPrefix \o Decimal(urlhash % HashMod)

\* a faulty variant: the [:50] is missing
title_name_uncut(title) == Sanitize(title)

title_name(title) == Truncate(Sanitize(title), TitleMax)

\* the base name of the output file
safe_title(filename, title, urlhash) ==
    IF filename_given(filename) THEN filename.name
    ELSE IF Strip(title_name(title)) = <<>> THEN fallback_name(urlhash)
         ELSE title_name(title)

(***************************************************************************)
(* URLs: [scheme, host, rooted, segs].  A relative reference has an empty  *)
(* scheme; segs is the path, each segment [stem, ext] as os.path.splitext  *)
(* splits it.                                                              *)
(***************************************************************************)
Seg(stem, ext) == [stem |-> stem, ext |-> ext]

Url(scheme, host, rooted, segs) ==
    [scheme |-> scheme, host |-> host, rooted |-> rooted, segs |-> segs]

\* a netloc urlsplit rejects ("Invalid IPv6 URL"): urljoin raises ValueError on it
BadHost == "["

urljoin_raises(u) == u.host = BadHost

\* urllib.parse.urljoin(base, u)
urljoin(base, u) ==
    IF u.scheme # "" THEN u
    ELSE IF u.host # "" THEN Url(base.scheme, u.host, TRUE, u.segs)
    ELSE IF u.rooted THEN Url(base.scheme, base.host, TRUE, u.segs)
    ELSE Url(base.scheme, base.host, TRUE,
             Slice(base.segs, 1, Len(base.segs) - 1) \o u.segs)

\* main(): "if not args.url.startswith(('http://', 'https://'))"
normalize_url(u) == IF u.scheme \in {"http", "https"} THEN u ELSE [u EXCEPT !.scheme = "https"]

(***************************************************************************)
(* Values of an img element's src: absent or empty, a URL as written in    *)
(* the page, or the local path images/<name> that process_images sets.     *)
(***************************************************************************)
NoSrc == [kind |-> "none"]

UrlSrc(u) == [kind |-> "url", url |-> u]

LocalSrc(name) == [kind |-> "local", name |-> name]

NoAlt == [kind |-> "none"]

\* os.path.splitext(urlparse(img_url).path)[1] or '.jpg'
image_ext(u) ==
    IF u.segs = <<>> \/ u.segs[Len(u.segs)].ext = "" THEN ".jpg"
    ELSE u.segs[Len(u.segs)].ext

\* f"img_{hashlib.md5(img_url.encode()).hexdigest()[:8]}{ext}"; the digest is kept
\* symbolic, as the URL it is the digest of
image_name(u) == [kind |-> "img", md5 |-> u, ext |-> image_ext(u)]

\* os.path.basename(local_path), for the alt text
basename(src) ==
    IF src.kind = "local" THEN [kind |-> "file", name |-> src.name]
    ELSE [kind |-> "seg", seg |-> IF src.url.segs = <<>> THEN Seg(src.url.host, "")
                                  ELSE src.url.segs[Len(src.url.segs)]]

(***************************************************************************)
(* Exceptions.  KeyboardInterrupt derives from BaseException, the others   *)
(* from Exception.  The filesystem is taken to be writable throughout      *)
(* (no OSError).                                                           *)
(***************************************************************************)
NoExc == "none"

\* what a server may do with a GET: answer 200, answer 404, or not answer in time
GetOutcomes == {"200", "404", "timeout"}

\* session.get raises (Timeout), or response.raise_for_status() does (HTTPError)
get_raises(status) == status = "timeout"

\* a faulty variant: the status of the response is never looked at
raise_for_status_skipped(status) == FALSE

raise_for_status(status) == status \notin {"200", "timeout"}

Exceptions == {"RequestException", "ValueError"}

\* faulty variants: a handler that catches nothing, and a bare "except:" that also
\* catches KeyboardInterrupt
download_image_except_nothing(e) == FALSE

download_image_except_all(e) == TRUE

\* download_image: "except Exception as e" catches e
download_image_except(e) == e \in Exceptions

\* a variant: the handler returns the URL as the page wrote it
img_url_as_written(page_url, img_url) == img_url

\* the value of img_url when download_image's handler returns it: the first
\* statement of the try block has rebound it to the joined URL, unless urljoin
\* itself raised
img_url_at_failure(page_url, img_url) ==
    IF urljoin_raises(img_url) THEN img_url ELSE urljoin(page_url, img_url)

\* WebpageToMarkdown.__init__: self.output_dir, self.images_dir
output_dir(out) == [out |-> out, sub |-> ""]

\* faulty variants: images saved next to the Markdown file, and an images
\* directory that does not depend on the output directory
images_dir_flat(out) == [out |-> out, sub |-> ""]

images_dir_shared(out) == [out |-> "out1", sub |-> "images"]

images_dir(out) == [out |-> out, sub |-> "images"]

Path(dir, name) == [dir |-> dir, name |-> name]

ImageBytes(u) == [kind |-> "bytes", of |-> u]

PartialFile == [kind |-> "partial"]

(***************************************************************************)
(* download_image(img_url): get is what the image server does with the    *)
(* request (see GetOutcomes), intr where a KeyboardInterrupt arrives       *)
(* ("none", "get": during the request, "write": during the file write).    *)
(* The result: ret, the returned src value; raised, the exception raised   *)
(* in the try block; exc, the exception that leaves the function; reqs,    *)
(* the GETs issued; writes, the files written.                             *)
(***************************************************************************)
download_image(page_url, out, img_url, get, intr) ==
    LET joined == urljoin(page_url, img_url)
        img_path == Path(images_dir(out), image_name(joined))
        raised == IF urljoin_raises(img_url) THEN "ValueError"
                  ELSE IF intr = "get" THEN "KeyboardInterrupt"
                  ELSE IF get_raises(get) \/ raise_for_status(get) THEN "RequestException"
                  ELSE IF intr = "write" THEN "KeyboardInterrupt"
                  ELSE NoExc
        reqs == IF urljoin_raises(img_url) THEN <<>> ELSE <<joined>>
        writes == IF raised = NoExc THEN <<[path |-> img_path, data |-> ImageBytes(joined)]>>
                  ELSE IF raised = "KeyboardInterrupt" /\ intr = "write"
                       THEN <<[path |-> img_path, data |-> PartialFile]>>
                  ELSE <<>>
    IN  IF raised = NoExc
        THEN [ret |-> LocalSrc(image_name(joined)), exc |-> NoExc, raised |-> raised,
              reqs |-> reqs, writes |-> writes]
        ELSE IF download_image_except(raised)
        THEN [ret |-> UrlSrc(img_url_at_failure(page_url, img_url)), exc |-> NoExc,
              raised |-> raised, reqs |-> reqs, writes |-> writes]
        ELSE [ret |-> NoSrc, exc |-> raised, raised |-> raised,
              reqs |-> reqs, writes |-> writes]

(***************************************************************************)
(* The document: its elements that a content selector or "body" can match, *)
(* in document order, each the set of those names it matches; and its      *)
(* nodes in document order.  A node is [tag, src, alt, anc, marker,         *)
(* data_src, data_actualsrc]: anc is the set of those elements (their       *)
(* positions) that contain the node, marker whether a string node's text    *)
(* contains "<!--"; a Comment node's text is what stands between the        *)
(* delimiters of the comment.                                               *)
(***************************************************************************)
Node(tag, src, alt, anc, marker) ==
    [tag |-> tag, src |-> src, alt |-> alt, anc |-> anc, marker |-> marker,
     data_src |-> NoSrc, data_actualsrc |-> NoSrc]

NoiseTags == {"script", "style", "meta", "link"}

StringTags == {"#text", "#comment"}

\* clean_html: decompose the noise elements, extract the strings holding "<!--"
clean_html_removes(n) ==
    \/ n.tag \in NoiseTags
    \/ n.tag \in StringTags /\ n.marker

clean_html(nodes) == SelectSeq(nodes, LAMBDA n : ~clean_html_removes(n))

\* process_images: "src = img.get('src')", the attribute the image is taken from
candidate_src(img) == img.src

\* a faulty variant: soup.find('img'), the first img element only
find_first_img(nodes, i) ==
    IF \E k \in i..Len(nodes) : nodes[k].tag = "img"
    THEN <<CHOOSE k \in i..Len(nodes) :
              nodes[k].tag = "img" /\ \A j \in i..(k - 1) : nodes[j].tag # "img">>
    ELSE <<>>

\* soup.find_all('img'): the positions of the img elements, in document order
RECURSIVE find_all_img(_, _)
find_all_img(nodes, i) ==
    IF i > Len(nodes) THEN <<>>
    ELSE (IF nodes[i].tag = "img" THEN <<i>> ELSE <<>>) \o find_all_img(nodes, i + 1)

\* the content selectors of convert_to_markdown, in the order they are tried
Selectors == <<"main", "article", "[role=main]", ".content", "#content", ".post",
               ".entry-content">>

\* soup.select_one(name), soup.find(name): the first element in document order
\* that matches; 0 (None) if there is none
select_one(regions, name) ==
    IF \E e \in 1..Len(regions) : name \in regions[e]
    THEN CHOOSE e \in 1..Len(regions) :
            /\ name \in regions[e]
            /\ \A d \in 1..(e - 1) : name \notin regions[d]
    ELSE 0

\* a faulty variant: the element that comes first in the document decides, the
\* selector is the first one that element matches
RECURSIVE first_selector_of_first_element(_, _)
first_selector_of_first_element(regions, i) ==
    IF i > Len(Selectors) THEN 0
    ELSE IF /\ select_one(regions, Selectors[i]) # 0
            /\ \A j \in 1..Len(Selectors) :
                  select_one(regions, Selectors[j]) # 0 =>
                      select_one(regions, Selectors[i]) <= select_one(regions, Selectors[j])
         THEN i
    ELSE first_selector_of_first_element(regions, i + 1)

\* the first selector, in that order, that matches an element of the page; 0 if
\* none ("if main_content: break": an element is true, whatever it holds)
RECURSIVE first_selector(_, _)
first_selector(regions, i) ==
    IF i > Len(Selectors) THEN 0
    ELSE IF select_one(regions, Selectors[i]) # 0 THEN i
    ELSE first_selector(regions, i + 1)

\* the element main_content is bound to; 0 stands for the soup itself
main_content_element(regions) ==
    LET k == first_selector(regions, 1)
    IN  IF k # 0 THEN select_one(regions, Selectors[k])
        ELSE select_one(regions, "body")

\* main_content: the nodes of that element
main_content(regions, nodes) ==
    LET e == main_content_element(regions)
    IN  IF e = 0 THEN nodes
        ELSE SelectSeq(nodes, LAMBDA n : e \in n.anc)

\* self.h.handle(str(main_content)): the Markdown tokens html2text emits, an
\* image reference for every img with a src unless ignore_images is set
html2text_handle(nodes, ignore) ==
    LET Emits(n) == \/ n.tag \in {"p", "#text"}
                    \/ n.tag = "img" /\ n.src # NoSrc /\ ~ignore
        Token(n) == IF n.tag = "img" THEN [kind |-> "image", alt |-> n.alt, src |-> n.src]
                    ELSE [kind |-> "text", alt |-> NoAlt, src |-> NoSrc]
        kept == SelectSeq(nodes, Emits)
    IN  [i \in 1..Len(kept) |-> Token(kept[i])]

\* metadata + markdown_content (the date line is left out)
final_content(title, page_url, body) ==
    [kind |-> "markdown", title |-> title, source |-> page_url, body |-> body]

\* self.output_dir / f"{safe_title}.md"
output_file(out, base) == Path(output_dir(out), [kind |-> "md", base |-> base])

\* main(): both handlers end in sys.exit(1); falling off the end exits 0
main_exit(exc) == IF exc = NoExc THEN 0 ELSE 1

\* the script's loop catches nothing: the exit status of an interpreter that an
\* uncaught exception ends is 1; one that a KeyboardInterrupt ends exits with 1
\* or, ending itself by SIGINT, is seen to exit with 130
uncaught_exit(exc) == IF exc = "KeyboardInterrupt" THEN {1, 130} ELSE {1}

\* a faulty variant: mkdir() without exist_ok
mkdir_raises_if_present(ds, d) == d \in ds

\* Path.mkdir(exist_ok=True) of a path that is a directory or absent, under a
\* parent that exists: FileExistsError is never raised
mkdir_raises(ds, d) == FALSE

mkdir(ds, d) ==
    IF mkdir_raises(ds, d) THEN [dirs |-> ds, exc |-> "FileExistsError"]
    ELSE [dirs |-> ds \cup {d}, exc |-> NoExc]

\* WebpageToMarkdown.__init__: the two mkdir calls
make_dirs(ds, out) ==
    LET first == mkdir(ds, output_dir(out))
    IN  IF first.exc # NoExc THEN first ELSE mkdir(first.dirs, images_dir(out))

(***************************************************************************)
(* The inputs: command lines, and the pages the web may serve.             *)
(***************************************************************************)
Calls == {1, 2}

NoFilename == [given |-> FALSE, name |-> <<>>]

Filename(name) == [given |-> TRUE, name |-> name]

NoTitle == [present |-> FALSE, text |-> <<>>]

Title(text) == [present |-> TRUE, text |-> text]

PageSegs == <<Seg("post", ""), Seg("page", "")>>

AbsImg == Url("https", "cdn.test", TRUE, <<Seg("a", ".png")>>)     \* https://cdn.test/a.png

RootImg == Url("", "", TRUE, <<Seg("a", ".png")>>)                  \* /a.png

RelImg == Url("", "", FALSE, <<Seg("b", "")>>)                      \* b

BadImg == Url("", BadHost, TRUE, <<Seg("c", ".gif")>>)              \* //[/c.gif

AltText == [kind |-> "text", text |-> "pic"]

Img(src, alt) == Node("img", src, alt, {}, FALSE)

\* an img without src that names its image in data-src or data-actualsrc
LazyImg(data_src, data_actualsrc) ==
    [Img(NoSrc, NoAlt) EXCEPT !.data_src = data_src, !.data_actualsrc = data_actualsrc]

\* the nodes the pages of the large site are made of
SiteNodes ==
    {Img(NoSrc, NoAlt), LazyImg(UrlSrc(AbsImg), NoSrc),
     Img(UrlSrc(AbsImg), NoAlt), Img(UrlSrc(RootImg), AltText),
     Img(UrlSrc(RelImg), NoAlt), Img(UrlSrc(BadImg), NoAlt),
     Node("p", NoSrc, NoAlt, {}, FALSE), Node("script", NoSrc, NoAlt, {}, FALSE),
     Node("#comment", NoSrc, NoAlt, {}, FALSE)}

SiteTitles == {NoTitle, Title(<<" ">>), Title(<<"a", "/", "b">>)}

\* nodes outside and, for the nodes that html2text turns into text, inside the
\* elements of regions
NodesIn(nodes, regions) ==
    nodes \cup {[n EXCEPT !.anc = DOMAIN regions] :
                  n \in {m \in nodes : m.tag = "p" \/ (m.tag = "img" /\ m.src # NoSrc)}}

PagesOf(nodeSeqs, titles, regionSets) ==
    {[title |-> t, regions |-> r, nodes |-> ns] :
        t \in titles, r \in regionSets, ns \in nodeSeqs}

SitePages ==
    UNION {PagesOf(SeqsUpTo(NodesIn(SiteNodes, r), MaxNodes), SiteTitles, {r}) :
              r \in {<<>>, <<{"article"}>>}}

\* the pages of the two small sites
SmallPages ==
    PagesOf({<<>>, <<Img(UrlSrc(AbsImg), NoAlt)>>,
             <<Img(UrlSrc(RelImg), NoAlt), Img(UrlSrc(AbsImg), NoAlt)>>},
            {Title(<<"H", "i">>)}, {<<>>})

\* the pages a host may answer a page request with
Serves(host) == IF host = "example.com" THEN SitePages ELSE SmallPages

\* hash(self.url): any integer, fixed for the life of a process
UrlHashes == {-1, 12345}

Args(u, out, filename, no_images, urlhash) ==
    [url |-> u, output |-> out, filename |-> filename, no_images |-> no_images,
     urlhash |-> urlhash]

\* command lines of a single run against the large site
SingleArgs ==
    {Args(Url("https", "example.com", TRUE, PageSegs), "output", fh[1], ni, fh[2]) :
        ni \in BOOLEAN,
        fh \in ({NoFilename} \X UrlHashes) \cup {<<Filename(<<"o">>), 12345>>}}
        \cup {Args(Url("", "example.com", TRUE, PageSegs), "output", NoFilename, FALSE, 12345)}

\* command lines of runs against the small sites
SmallArgs ==
    {Args(Url("https", host, TRUE, PageSegs), out, f, FALSE, 12345) :
        host \in {"a.test", "b.test"}, out \in {"out1", "out2"},
        f \in {NoFilename, Filename(<<"o">>)}}

NoData == [kind |-> "none"]

Ended(res, data) == [result |-> res, data |-> data]

Running == [kind |-> "running", exc |-> NoExc, path |-> <<>>]

Raised(e) == [kind |-> "raised", exc |-> e, path |-> <<>>]

Returned(path) == [kind |-> "returned", exc |-> NoExc, path |-> <<path>>]

NoResponse == [status |-> "none", title |-> NoTitle, regions |-> <<>>, nodes |-> <<>>]

\* the response to the page request: its status and, when it is 200, the page
Response(status, page) ==
    [status |-> status, title |-> page.title, regions |-> page.regions, nodes |-> page.nodes]

ppIdle == content = <<>> /\ pp_once = <<>> /\ pp_twice = <<>> /\ pp_stage = 0

nmIdle ==
    /\ nm_in = [filename |-> NoFilename, title |-> NoTitle, urlhash |-> 0]
    /\ nm_out = <<>>
    /\ nm_stage = 0

dcIdle ==
    /\ dc_in = [title |-> NoTitle, regions |-> <<>>, nodes |-> <<>>]
    /\ dc_clean = <<>>
    /\ dc_main = <<>>
    /\ dc_stage = 0

\* the state of the calls before they start, the loop's own variables aside
convStart(argsOf, at, ds, fs) ==
    /\ args = argsOf
    /\ url = [p \in Calls |-> argsOf[p].url]
    /\ pc = at
    /\ response = [p \in Calls |-> NoResponse]
    /\ soup = [p \in Calls |-> <<>>]
    /\ title_text = [p \in Calls |-> <<>>]
    /\ ignore_images = [p \in Calls |-> FALSE]
    /\ img_i = [p \in Calls |-> 1]
    /\ outcome = [p \in Calls |-> <<>>]
    /\ dirs = ds
    /\ files = fs
    /\ written = [p \in Calls |-> <<>>]
    /\ requests = [p \in Calls |-> <<>>]
    /\ result = [p \in Calls |-> Running]
    /\ exit_code = [p \in Calls |-> {}]
    /\ ended = [p \in Calls |-> <<>>]

convInit(argsOf, started) ==
    /\ convStart(argsOf, [p \in Calls |-> IF p \in started THEN "main" ELSE "off"], {}, {})
    /\ url_list = <<>>
    /\ loop_i = 0

\* one run of main()
Init ==
    /\ \E a \in SingleArgs : convInit([p \in Calls |-> a], {1})
    /\ ppIdle
    /\ nmIdle
    /\ dcIdle

(***************************************************************************)
(* main() and convert_to_markdown(), one action per blocking step.         *)
(***************************************************************************)
WriteFile(fs, path, data) ==
    {f \in fs : f.path # path} \cup {[path |-> path, data |-> data]}

\* an exception leaves convert_to_markdown ("except Exception ... raise", or a
\* KeyboardInterrupt passing through) and main() exits on it
Abort(p, e) ==
    /\ result' = [result EXCEPT ![p] = Raised(e)]
    /\ ended' = [ended EXCEPT ![p] = Append(@, Ended(Raised(e), NoData))]
    /\ IF url_list = <<>>
       THEN exit_code' = [exit_code EXCEPT ![p] = {main_exit(e)}]
       ELSE \E status \in uncaught_exit(e) : exit_code' = [exit_code EXCEPT ![p] = {status}]
    /\ pc' = [pc EXCEPT ![p] = "exited"]

\* convert_to_markdown returns: to main(), which ends, or to the loop of the script
Return(p) ==
    IF url_list = <<>>
    THEN /\ exit_code' = [exit_code EXCEPT ![p] = {main_exit(NoExc)}]
         /\ pc' = [pc EXCEPT ![p] = "exited"]
    ELSE /\ pc' = [pc EXCEPT ![p] = "loop"]
         /\ UNCHANGED exit_code

\* main(): parse_args and the URL check
ParseArgs(p) ==
    /\ pc[p] = "main"
    /\ url' = [url EXCEPT ![p] = normalize_url(args[p].url)]
    /\ pc' = [pc EXCEPT ![p] = "init"]
    /\ UNCHANGED <<args, response, soup, title_text, ignore_images, img_i, outcome,
                   dirs, files, written, requests, result, exit_code, ended>>
    /\ UNCHANGED <<loopVars, ppVars, nmVars, dcVars>>

\* main(): WebpageToMarkdown(args.url, args.output, args.filename), then
\* "if args.no_images: converter.h.ignore_images = True"
Construct(p) ==
    /\ pc[p] = "init"
    /\ \E intr \in {"none", "mkdir"} :
          IF intr = "none"
          THEN LET made == make_dirs(dirs, args[p].output)
               IN  /\ dirs' = made.dirs
                   /\ IF made.exc = NoExc
                      THEN /\ ignore_images' = [ignore_images EXCEPT ![p] = args[p].no_images]
                           /\ pc' = [pc EXCEPT ![p] = "fetch"]
                           /\ UNCHANGED <<result, exit_code, ended>>
                      ELSE /\ Abort(p, made.exc)
                           /\ UNCHANGED ignore_images
          ELSE /\ dirs' \in {dirs, dirs \cup {output_dir(args[p].output)}}
               /\ Abort(p, "KeyboardInterrupt")
               /\ UNCHANGED ignore_images
    /\ UNCHANGED <<args, url, response, soup, title_text, img_i, outcome, files, written,
                   requests>>
    /\ UNCHANGED <<loopVars, ppVars, nmVars, dcVars>>

\* convert_to_markdown(): fetch the page, parse it, take the title, clean_html
FetchPage(p) ==
    /\ pc[p] = "fetch"
    /\ requests' = [requests EXCEPT ![p] = Append(@, url[p])]
    /\ \E status \in GetOutcomes, intr \in {"none", "get"}, page \in Serves(url[p].host) :
          LET e == IF intr = "get" THEN "KeyboardInterrupt"
                   ELSE IF get_raises(status) \/ raise_for_status(status)
                        THEN "RequestException"
                   ELSE NoExc
          IN  IF e = NoExc
              THEN /\ response' = [response EXCEPT ![p] = Response(status, page)]
                   /\ soup' = [soup EXCEPT ![p] = clean_html(page.nodes)]
                   /\ title_text' = [title_text EXCEPT ![p] = extract_title(page.title)]
                   /\ img_i' = [img_i EXCEPT ![p] = 1]
                   /\ outcome' = [outcome EXCEPT
                                    ![p] = [k \in 1..Len(clean_html(page.nodes)) |-> "pending"]]
                   /\ pc' = [pc EXCEPT ![p] = "images"]
                   /\ UNCHANGED <<result, exit_code, ended>>
              ELSE /\ Abort(p, e)
                   /\ response' = IF intr = "get" THEN response
                                  ELSE [response EXCEPT ![p].status = status]
                   /\ UNCHANGED <<soup, title_text, img_i, outcome>>
    /\ UNCHANGED <<args, url, ignore_images, dirs, files, written>>
    /\ UNCHANGED <<loopVars, ppVars, nmVars, dcVars>>

\* process_images(): img['src'] = local_path, and the alt text when there is none
rewrite_img(img, local_path) ==
    [img EXCEPT !.src = local_path,
                !.alt = IF img.alt = NoAlt THEN basename(local_path) ELSE @]

\* history: what happened to the download d of an image, get being the server's part
ImageOutcome(d, get) ==
    IF d.raised = "KeyboardInterrupt" THEN "interrupted"
    ELSE IF d.reqs = <<>> THEN "noreq"
    ELSE IF get = "200" THEN "200"
    ELSE "error"

\* process_images(): one iteration of "for img in images"
ProcessImage(p) ==
    /\ pc[p] = "images"
    /\ img_i[p] <= Len(find_all_img(soup[p], 1))
    /\ LET k == find_all_img(soup[p], 1)[img_i[p]]
           img == soup[p][k]
       IN  IF candidate_src(img) = NoSrc
           THEN \* "if not src: continue"
                /\ img_i' = [img_i EXCEPT ![p] = @ + 1]
                /\ outcome' = [outcome EXCEPT ![p][k] = "skipped"]
                /\ UNCHANGED <<soup, files, written, requests, result, exit_code, pc, ended>>
           ELSE \E get \in GetOutcomes, intr \in {"none", "get", "write"} :
                  LET d == download_image(url[p], args[p].output, candidate_src(img).url,
                                          get, intr)
                  IN  /\ requests' = [requests EXCEPT ![p] = @ \o d.reqs]
                      /\ files' = IF d.writes = <<>> THEN files
                                  ELSE WriteFile(files, d.writes[1].path, d.writes[1].data)
                      /\ written' = [written EXCEPT
                                       ![p] = @ \o [i \in 1..Len(d.writes) |-> d.writes[i].path]]
                      /\ outcome' = [outcome EXCEPT ![p][k] = ImageOutcome(d, get)]
                      /\ IF d.exc # NoExc
                         THEN /\ Abort(p, d.exc)
                              /\ UNCHANGED <<soup, img_i>>
                         ELSE /\ soup' = [soup EXCEPT ![p][k] = rewrite_img(img, d.ret)]
                              /\ img_i' = [img_i EXCEPT ![p] = @ + 1]
                              /\ UNCHANGED <<result, exit_code, pc, ended>>
    /\ UNCHANGED <<args, url, response, title_text, ignore_images, dirs>>
    /\ UNCHANGED <<loopVars, ppVars, nmVars, dcVars>>

\* convert_to_markdown() after process_images: select the main content, convert
\* and post-process it (post_process_markdown changes the layout of the text,
\* not its tokens), name the output file and write it; then main() returns
WriteMarkdown(p) ==
    /\ pc[p] = "images"
    /\ img_i[p] > Len(find_all_img(soup[p], 1))
    /\ LET body == html2text_handle(main_content(response[p].regions, soup[p]),
                                    ignore_images[p])
           file == output_file(args[p].output,
                               safe_title(args[p].filename, title_text[p], args[p].urlhash))
           data == final_content(title_text[p], url[p], body)
       IN  \E intr \in {"none", "open", "write"} :
             IF intr = "none"
             THEN /\ files' = WriteFile(files, file, data)
                  /\ written' = [written EXCEPT ![p] = Append(@, file)]
                  /\ ended' = [ended EXCEPT ![p] = Append(@, Ended(Returned(file), data))]
                  /\ result' = [result EXCEPT ![p] = Returned(file)]
                  /\ Return(p)
             ELSE /\ files' = IF intr = "open" THEN files
                              ELSE WriteFile(files, file, PartialFile)
                  /\ written' = IF intr = "open" THEN written
                                ELSE [written EXCEPT ![p] = Append(@, file)]
                  /\ Abort(p, "KeyboardInterrupt")
    /\ UNCHANGED <<args, url, response, soup, title_text, ignore_images, img_i, outcome,
                   dirs, requests>>
    /\ UNCHANGED <<loopVars, ppVars, nmVars, dcVars>>

Next ==
    \E p \in Calls :
        \/ ParseArgs(p)
        \/ Construct(p)
        \/ FetchPage(p)
        \/ ProcessImage(p)
        \/ WriteMarkdown(p)

Spec == Init /\ [][Next]_vars

(***************************************************************************)
(* Two runs at once, each in its own process, against the small sites.     *)
(***************************************************************************)
InitConc ==
    /\ \E a \in [Calls -> SmallArgs] : convInit(a, Calls)
    /\ ppIdle
    /\ nmIdle
    /\ dcIdle

SpecConc == InitConc /\ [][Next]_vars

(***************************************************************************)
(* post_process_markdown applied to a text, and to its own output.         *)
(***************************************************************************)
TextChars == {NL, "#", " ", "a"}

ImageRef == <<"!", "[", "a", "]", "(", "u", ")">>

HeadingLine == <<"#", " ", "a">>

Texts ==
    SeqsUpTo(TextChars, MaxTextLen)
        \cup {pre \o ImageRef \o post : pre \in SeqsUpTo(TextChars, MaxTextLen - 3),
                                        post \in SeqsUpTo(TextChars, MaxTextLen - 3)}
        \cup {pre \o HeadingLine \o post : pre \in SeqsUpTo({NL, "a"}, MaxTextLen - 3),
                                           post \in SeqsUpTo({NL, "a"}, MaxTextLen - 3)}

IdleArgs == Args(Url("https", "example.com", TRUE, PageSegs), "output", NoFilename, FALSE, 0)

convIdle == convInit([p \in Calls |-> IdleArgs], {})

InitPost ==
    /\ content \in Texts
    /\ pp_once = <<>>
    /\ pp_twice = <<>>
    /\ pp_stage = 0
    /\ convIdle
    /\ nmIdle
    /\ dcIdle

ApplyOnce ==
    /\ pp_stage = 0
    /\ pp_once' = post_process_markdown(content)
    /\ pp_stage' = 1
    /\ UNCHANGED <<content, pp_twice, convVars, nmVars, dcVars>>

ApplyTwice ==
    /\ pp_stage = 1
    /\ pp_twice' = post_process_markdown(pp_once)
    /\ pp_stage' = 2
    /\ UNCHANGED <<content, pp_once, convVars, nmVars, dcVars>>

NextPost == ApplyOnce \/ ApplyTwice

SpecPost == InitPost /\ [][NextPost]_vars

(***************************************************************************)
(* The naming of the output file, over titles around the 50-character cut. *)
(***************************************************************************)
TitleChars == ForbiddenChars \cup {"a", " "}

TitlePads == {Repeat(c, n) : c \in {"a", "/"}, n \in {0} \cup (TitleMax - 2)..TitleMax}

TitleTexts == {pad \o tail : pad \in TitlePads, tail \in SeqsUpTo(TitleChars, MaxTitleTail)}

NameInputs ==
    [filename : {NoFilename, Filename(<<>>), Filename(<<" ">>), Filename(<<"a", ":", "b">>)},
     title : {NoTitle} \cup {Title(t) : t \in TitleTexts},
     urlhash : {-1, 0, 12345}]

InitName ==
    /\ nm_in \in NameInputs
    /\ nm_out = <<>>
    /\ nm_stage = 0
    /\ convIdle
    /\ ppIdle
    /\ dcIdle

ComputeName ==
    /\ nm_stage = 0
    /\ nm_out' = safe_title(nm_in.filename, extract_title(nm_in.title), nm_in.urlhash)
    /\ nm_stage' = 1
    /\ UNCHANGED <<nm_in, convVars, ppVars, dcVars>>

NextName == ComputeName

SpecName == InitName /\ [][NextName]_vars

(***************************************************************************)
(* The script run as a program: the loop over zip(url_list, output_lst),   *)
(* which makes a converter for each pair and converts, one pair after the  *)
(* other, in one process.  The filesystem is empty at the start, or holds  *)
(* what an earlier run has left.                                           *)
(***************************************************************************)
Pair(u, out) == [url |-> u, output |-> out]

\* an output name as text
Chars(out) == IF out = "out1" THEN <<"o", "u", "t", "1">> ELSE <<"o", "u", "t", "2">>

Pairs ==
    {Pair(Url("https", host, TRUE, PageSegs), out) :
        host \in {"a.test", "b.test"}, out \in {"out1", "out2"}}

UrlLists == SeqsUpTo(Pairs, MaxPairs) \ {<<>>}

EarlierDirs == {output_dir("out1"), images_dir("out1")}

EarlierFiles ==
    {[path |-> output_file("out1", Chars("out1")),
      data |-> final_content(<<"O", "l", "d">>, Url("https", "a.test", TRUE, PageSegs), <<>>)],
     [path |-> Path(images_dir("out1"), image_name(AbsImg)), data |-> ImageBytes(AbsImg)]}

InitLoop ==
    /\ \E earlier \in BOOLEAN :
          convStart([p \in Calls |-> IdleArgs],
                    [p \in Calls |-> IF p = 1 THEN "loop" ELSE "off"],
                    IF earlier THEN EarlierDirs ELSE {},
                    IF earlier THEN EarlierFiles ELSE {})
    /\ url_list \in UrlLists
    /\ loop_i = 0
    /\ ppIdle
    /\ nmIdle
    /\ dcIdle

\* "for url, output in zip(url_list, output_lst)": the next pair, and the first
\* statement of the body, WebpageToMarkdown(url, output); or the end of the loop
\* and of the script
LoopNext(p) ==
    /\ pc[p] = "loop"
    /\ IF loop_i = Len(url_list)
       THEN /\ pc' = [pc EXCEPT ![p] = "exited"]
            /\ exit_code' = [exit_code EXCEPT ![p] = {0}]
            /\ UNCHANGED <<args, url, response, soup, title_text, ignore_images, img_i,
                           outcome, dirs, result, ended, loop_i>>
       ELSE LET pair == url_list[loop_i + 1]
            IN  /\ loop_i' = loop_i + 1
                /\ args' = [args EXCEPT ![p] = Args(pair.url, pair.output,
                                                    Filename(Chars(pair.output)), FALSE, 12345)]
                /\ url' = [url EXCEPT ![p] = pair.url]
                /\ response' = [response EXCEPT ![p] = NoResponse]
                /\ soup' = [soup EXCEPT ![p] = <<>>]
                /\ title_text' = [title_text EXCEPT ![p] = <<>>]
                /\ ignore_images' = [ignore_images EXCEPT ![p] = FALSE]
                /\ img_i' = [img_i EXCEPT ![p] = 1]
                /\ outcome' = [outcome EXCEPT ![p] = <<>>]
                /\ \E intr \in {"none", "mkdir"} :
                      IF intr = "none"
                      THEN LET made == make_dirs(dirs, pair.output)
                           IN  /\ dirs' = made.dirs
                               /\ IF made.exc = NoExc
                                  THEN /\ result' = [result EXCEPT ![p] = Running]
                                       /\ pc' = [pc EXCEPT ![p] = "init"]
                                       /\ UNCHANGED <<exit_code, ended>>
                                  ELSE Abort(p, made.exc)
                      ELSE /\ dirs' \in {dirs, dirs \cup {output_dir(pair.output)}}
                           /\ Abort(p, "KeyboardInterrupt")
    /\ UNCHANGED <<files, written, requests, url_list>>
    /\ UNCHANGED <<ppVars, nmVars, dcVars>>

NextLoop ==
    \/ LoopNext(1)
    \/ Construct(1)
    \/ FetchPage(1)
    \/ ProcessImage(1)
    \/ WriteMarkdown(1)

SpecLoop == InitLoop /\ [][NextLoop]_vars

(***************************************************************************)
(* clean_html and the selection of the main content, applied to a parsed   *)
(* page: pages that vary in their elements, and pages that vary in their   *)
(* nodes.                                                                  *)
(***************************************************************************)
ElemKinds ==
    {{Selectors[i]} : i \in 1..Len(Selectors)}
        \cup {{"body"}, {"article", ".content"}, {"body", ".post"}}

\* the elements that contain element i (itself included), par[e] being the
\* element directly around e, 0 for none
RECURSIVE Ancestors(_, _)
Ancestors(par, i) == IF i = 0 THEN {} ELSE {i} \cup Ancestors(par, par[i])

\* the ways n elements in document order can be nested in each other
Parents(n) ==
    {par \in [1..n -> 0..n] :
        /\ \A i \in 1..n : par[i] < i
        /\ \A i \in 2..n : par[i] \in {0} \cup Ancestors(par, i - 1)}

Para(anc) == Node("p", NoSrc, NoAlt, anc, FALSE)

\* a paragraph before the first element and one at the start of each element
StructPages ==
    UNION {{[title |-> NoTitle, regions |-> es,
             nodes |-> <<Para({})>> \o [i \in 1..Len(es) |-> Para(Ancestors(par, i))]] :
               par \in Parents(Len(es))} :
           es \in SeqsUpTo(ElemKinds, MaxElems)}

DocNodes ==
    {Node(tag, NoSrc, NoAlt, {}, FALSE) :
        tag \in {"p", "title", "script", "style", "meta", "link", "#comment", "#text"}}
        \cup {Node(tag, NoSrc, NoAlt, {}, TRUE) : tag \in {"#comment", "#text"}}
        \cup {Img(UrlSrc(AbsImg), NoAlt)}

\* nodes of every kind, outside and inside an article element
NodePages ==
    {[title |-> NoTitle, regions |-> <<{"article"}>>, nodes |-> ns] :
        ns \in SeqsUpTo(DocNodes \cup {[n EXCEPT !.anc = {1}] : n \in DocNodes}, MaxNodes)}

InitDoc ==
    /\ dc_in \in StructPages \cup NodePages
    /\ dc_clean = <<>>
    /\ dc_main = <<>>
    /\ dc_stage = 0
    /\ convIdle
    /\ ppIdle
    /\ nmIdle

\* soup = self.clean_html(soup)
ApplyClean ==
    /\ dc_stage = 0
    /\ dc_clean' = clean_html(dc_in.nodes)
    /\ dc_stage' = 1
    /\ UNCHANGED <<dc_in, dc_main, convVars, ppVars, nmVars>>

\* the selector loop and the fallback to the body
ApplySelect ==
    /\ dc_stage = 1
    /\ dc_main' = main_content(dc_in.regions, dc_clean)
    /\ dc_stage' = 2
    /\ UNCHANGED <<dc_in, dc_clean, convVars, ppVars, nmVars>>

NextDoc == ApplyClean \/ ApplySelect

SpecDoc == InitDoc /\ [][NextDoc]_vars

(***************************************************************************)
(* Properties.                                                             *)
(***************************************************************************)

\* the nodes of the page as parsed and cleaned, before process_images touched them
Orig(p) == clean_html(response[p].nodes)

Interrupted(p) ==
    \/ result[p].exc = "KeyboardInterrupt"
    \/ \E k \in 1..Len(outcome[p]) : outcome[p][k] = "interrupted"

PageFetchFailed(p) == response[p].status \in {"404", "timeout"}

ImageFailed(p, k) == outcome[p][k] \in {"error", "noreq"}

IsMarkdownPath(path, out) ==
    path.dir = [out |-> out, sub |-> ""] /\ path.name.kind = "md"

ImagePath(out, name) == [dir |-> [out |-> out, sub |-> "images"], name |-> name]

\* C1: when the page fetch fails (404, or no answer), convert_to_markdown raises
\* the failure, the call has written no file, and the output directory holds no
\* Markdown file.
C1_FailedFetchRaisesNoFile ==
    \A p \in Calls :
        PageFetchFailed(p) =>
            /\ pc[p] = "exited"
            /\ result[p] = Raised("RequestException")
            /\ written[p] = <<>>
            /\ \A f \in files : ~IsMarkdownPath(f.path, args[p].output)

C1_Witness ==
    \E p \in Calls :
        /\ response[p].status = "404"
        /\ pc[p] = "exited"
        /\ Len(requests[p]) = 1
        /\ images_dir(args[p].output) \in dirs

\* C2: image downloads that fail never abort the conversion: a run whose page
\* was fetched and that no interrupt cut short returns the path of a Markdown
\* file it wrote, and every image whose download succeeded is saved under
\* images/ and has its src rewritten to images/<name>.
C2_ImageFailuresIsolated ==
    \A p \in Calls :
        /\ (pc[p] = "exited" /\ response[p].status = "200" /\ ~Interrupted(p)) =>
              /\ result[p].kind = "returned"
              /\ IsMarkdownPath(result[p].path[1], args[p].output)
              /\ \E f \in files : f.path = result[p].path[1] /\ f.data.kind = "markdown"
        /\ \A k \in 1..Len(outcome[p]) :
              outcome[p][k] = "200" =>
                  /\ soup[p][k].src.kind = "local"
                  /\ \E f \in files :
                        /\ f.path = ImagePath(args[p].output, soup[p][k].src.name)
                        /\ ~Interrupted(p) => f.data = ImageBytes(soup[p][k].src.name.md5)

C2_Witness ==
    \E p \in Calls :
        /\ result[p].kind = "returned"
        /\ \E j, k \in 1..Len(outcome[p]) : outcome[p][j] = "error" /\ outcome[p][k] = "200"

\* C3 as stated: after a failed download the src is the URL exactly as the page
\* wrote it, relative or not.
C3_SrcKeptAsWritten ==
    \A p \in Calls :
        \A k \in 1..Len(outcome[p]) :
            ImageFailed(p, k) => soup[p][k].src = Orig(p)[k].src

\* C3 as amended: after a failed download the src is the URL resolved against
\* the page URL: the URL as written when it was absolute (or could not be
\* resolved at all), and otherwise the absolute URL on the page's scheme, on
\* the page's host unless the reference names one, with the path of the
\* reference taken from the root or from the page's directory.
C3_SrcResolvedOnFailure ==
    \A p \in Calls :
        \A k \in 1..Len(outcome[p]) :
            ImageFailed(p, k) =>
                LET o == Orig(p)[k].src.url
                    s == soup[p][k].src
                IN  /\ s.kind = "url"
                    /\ IF o.scheme # "" \/ o.host = BadHost THEN s.url = o
                       ELSE /\ s.url.scheme = url[p].scheme
                            /\ s.url.host = (IF o.host # "" THEN o.host ELSE url[p].host)
                            /\ s.url.rooted
                            /\ s.url.segs =
                                 (IF o.rooted THEN o.segs
                                  ELSE Slice(url[p].segs, 1, Len(url[p].segs) - 1) \o o.segs)

C3_Witness ==
    \E p \in Calls :
        \E k \in 1..Len(outcome[p]) :
            /\ outcome[p][k] = "error"
            /\ Orig(p)[k].src.url = RelImg
            /\ soup[p][k].src.url.scheme = "https"

\* C4: after a completed conversion every image reference in the Markdown body
\* is a path images/<name> whose file this conversion wrote, or else the URL of
\* an image whose download failed.
C4_ReferencesAreLocalOrFailed ==
    \A p \in Calls :
        result[p].kind = "returned" =>
            \A f \in files :
                f.path = result[p].path[1] =>
                    \A i \in 1..Len(f.data.body) :
                        f.data.body[i].kind = "image" =>
                            LET src == f.data.body[i].src
                            IN  \/ /\ src.kind = "local"
                                   /\ \E g \in files :
                                         g.path = ImagePath(args[p].output, src.name)
                                   /\ ImagePath(args[p].output, src.name) \in Range(written[p])
                                \/ /\ src.kind = "url"
                                   /\ \E k \in 1..Len(outcome[p]) :
                                         ImageFailed(p, k) /\ soup[p][k].src = src

C4_Witness ==
    \E p \in Calls :
        /\ result[p].kind = "returned"
        /\ \E f \in files :
              /\ f.path = result[p].path[1]
              /\ \E i, j \in 1..Len(f.data.body) :
                    /\ f.data.body[i].kind = "image" /\ f.data.body[i].src.kind = "local"
                    /\ f.data.body[j].kind = "image" /\ f.data.body[j].src.kind = "url"

\* C5: post_process_markdown is idempotent: applying it to its own output
\* changes nothing.
C5_PostProcessIdempotent == pp_stage = 2 => pp_twice = pp_once

\* C6: without an explicit filename, the base name of the output file holds
\* none of the characters < > : " / \ | ? *, each of them in the title having
\* become "_", and is at most 50 characters long.
C6_TitleNameSanitizedAndCut ==
    (nm_stage = 1 /\ ~(nm_in.filename.given /\ nm_in.filename.name # <<>>)) =>
        LET t == IF nm_in.title.present THEN Strip(nm_in.title.text) ELSE DefaultTitle
        IN  /\ Len(nm_out) <= 50
            /\ \A i \in 1..Len(nm_out) : nm_out[i] \notin ForbiddenChars
            /\ \/ \A i \in 1..Min(Len(t), 50) : t[i] \in Whitespace
               \/ /\ Len(nm_out) = Min(Len(t), 50)
                  /\ \A i \in 1..Len(nm_out) :
                        nm_out[i] = (IF t[i] \in ForbiddenChars THEN "_" ELSE t[i])

C6_Witness ==
    /\ nm_stage = 1
    /\ ~nm_in.filename.given
    /\ nm_in.title.present
    /\ Len(nm_in.title.text) > 50
    /\ nm_in.title.text[50] = "/"
    /\ Len(nm_out) = 50
    /\ nm_out[50] = "_"

\* the name webpage_<hash of URL mod 10000>
IsFallbackName(name, urlhash) ==
    \E n \in 0..9999 :
        /\ (urlhash - n) % 10000 = 0
        /\ name = <<"w", "e", "b", "p", "a", "g", "e", "_">> \o Decimal(n)

\* C7: a supplied (non-empty) filename is the name, verbatim; otherwise the
\* sanitized title is, unless it is blank; the webpage_<hash mod 10000> name is
\* used exactly when no filename was supplied and the sanitized title is blank.
C7_NamingPrecedence ==
    nm_stage = 1 =>
        LET explicit == nm_in.filename.given /\ Len(nm_in.filename.name) > 0
            t == IF nm_in.title.present THEN Strip(nm_in.title.text) ELSE DefaultTitle
            cut == [i \in 1..Min(Len(t), 50) |->
                       IF t[i] \in ForbiddenChars THEN "_" ELSE t[i]]
            blank == \A i \in 1..Len(cut) : cut[i] \in Whitespace
        IN  /\ explicit => nm_out = nm_in.filename.name
            /\ (~explicit /\ ~blank) => nm_out = cut
            /\ IsFallbackName(nm_out, nm_in.urlhash) <=> (~explicit /\ blank)

C7_Witness ==
    /\ nm_stage = 1
    /\ nm_in.filename = Filename(<<>>)
    /\ nm_in.title = Title(<<" ">>)
    /\ nm_in.urlhash = -1
    /\ nm_out = <<"w", "e", "b", "p", "a", "g", "e", "_", "9", "9", "9", "9">>

\* C8: with --no-images no image is requested and no file is written under the
\* images directory.
C8_NoImagesSkipsDownloads ==
    \A p \in Calls :
        args[p].no_images =>
            /\ \A i \in 1..Len(requests[p]) : requests[p][i] = url[p]
            /\ \A i \in 1..Len(written[p]) : written[p][i].dir.sub # "images"

\* C9: main() exits with 1 when a KeyboardInterrupt arrives at any point of the
\* conversion, a download of an image included, and when the conversion fails;
\* it exits with 0 when the conversion succeeds; it has no exit status before.
C9_ExitCodes ==
    \A p \in Calls :
        /\ pc[p] # "exited" => exit_code[p] = {} /\ result[p].kind = "running"
        /\ pc[p] = "exited" =>
              /\ result[p].kind \in {"returned", "raised"}
              /\ exit_code[p] = (IF result[p].kind = "returned" THEN {0} ELSE {1})
        /\ (Interrupted(p) \/ PageFetchFailed(p)) =>
              pc[p] = "exited" /\ exit_code[p] = {1}
        /\ result[p].kind = "returned" =>
              \E f \in files : f.path = result[p].path[1] /\ f.data.kind = "markdown"

C9_Witness ==
    \E p \in Calls :
        /\ exit_code[p] = {1}
        /\ \E k \in 1..Len(outcome[p]) : outcome[p][k] = "interrupted"
        /\ written[p] # <<>>

\* what the images of call p leave behind when the call runs on its own, from an
\* empty filesystem, against the same server answers: acc is [nodes, files]
RECURSIVE AloneImages(_, _, _)
AloneImages(p, acc, k) ==
    IF k > Len(acc.nodes) THEN acc
    ELSE IF acc.nodes[k].tag # "img" \/ candidate_src(acc.nodes[k]) = NoSrc
    THEN AloneImages(p, acc, k + 1)
    ELSE LET d == download_image(normalize_url(args[p].url), args[p].output,
                                 candidate_src(acc.nodes[k]).url,
                                 IF outcome[p][k] = "200" THEN "200" ELSE "404", "none")
         IN  AloneImages(p,
                         [nodes |-> [acc.nodes EXCEPT ![k] = rewrite_img(@, d.ret)],
                          files |-> IF d.writes = <<>> THEN acc.files
                                    ELSE WriteFile(acc.files, d.writes[1].path,
                                                   d.writes[1].data)],
                         k + 1)

\* the files of a run of call p on its own
RunAlone(p) ==
    LET title == extract_title(response[p].title)
        done == AloneImages(p, [nodes |-> clean_html(response[p].nodes), files |-> {}], 1)
        body == html2text_handle(main_content(response[p].regions, done.nodes),
                                 args[p].no_images)
    IN  WriteFile(done.files,
                  output_file(args[p].output,
                              safe_title(args[p].filename, title, args[p].urlhash)),
                  final_content(title, normalize_url(args[p].url), body))

FilesUnder(out) == {f \in files : f.path.dir.out = out}

\* C10: two calls running at once with distinct output directories do not
\* interfere: under every interleaving each writes only under its own output
\* directory, and ends with the Markdown file and the image files it produces
\* when run alone.
C10_ConcurrentCallsIndependent ==
    args[1].output # args[2].output =>
        \A p \in Calls :
            /\ \A i \in 1..Len(written[p]) : written[p][i].dir.out = args[p].output
            /\ \A f \in FilesUnder(args[p].output) : f.path \in Range(written[p])
            /\ result[p].kind = "returned" => FilesUnder(args[p].output) = RunAlone(p)

C10_Witness ==
    /\ args[1].output # args[2].output
    /\ \A p \in Calls :
          /\ result[p].kind = "returned"
          /\ \E k \in 1..Len(outcome[p]) : outcome[p][k] = "200"
          /\ Cardinality(FilesUnder(args[p].output)) >= 2

\* s.split("\n"): the lines of s from position i on
RECURSIVE SplitLines(_, _)
SplitLines(s, i) ==
    LET n == RunLenNot(s, i, {NL})
    IN  IF i + n > Len(s) THEN <<Slice(s, i, Len(s))>>
        ELSE <<Slice(s, i, i + n - 1)>> \o SplitLines(s, i + n + 1)

\* a heading line: 1 to 6 "#" markers, whitespace, text
IsHeadingLine(l) ==
    LET h == RunLen(l, 1, {"#"})
        w == RunLen(l, h + 1, {" ", "\t"})
    IN  h \in 1..6 /\ w >= 1 /\ h + w < Len(l)

NonBlankLines(s) == SelectSeq(SplitLines(s, 1), LAMBDA l : l # <<>>)

\* C13: in the output of post_process_markdown every heading line that is not
\* the first or the last line has exactly one blank line above it and exactly
\* one below it, and the lines that hold text are the lines of the input that
\* hold text: nothing that was not a heading line stands on a line of its own.
C13_HeadingsHaveOneBlankLine ==
    pp_stage >= 1 =>
        LET L == SplitLines(pp_once, 1)
        IN  /\ \A i \in 2..(Len(L) - 1) :
                  IsHeadingLine(L[i]) =>
                      /\ L[i - 1] = <<>> /\ L[i + 1] = <<>>
                      /\ i - 2 >= 1 => L[i - 2] # <<>>
                      /\ i + 2 <= Len(L) => L[i + 2] # <<>>
            /\ NonBlankLines(pp_once) = NonBlankLines(Strip(content))

\* C14: the output of post_process_markdown holds no run of 3 or more
\* consecutive newlines.
C14_NoThreeNewlines ==
    pp_stage >= 1 =>
        \A i \in 1..(Len(pp_once) - 2) :
            ~(pp_once[i] = NL /\ pp_once[i + 1] = NL /\ pp_once[i + 2] = NL)

\* C15: the region converted is the first element, in document order, that the
\* first selector of main, article, [role=main], .content, #content, .post,
\* .entry-content with any match matches, whatever the order of the elements in
\* the document; without any match it is the first body element, and without
\* a body the whole document.
C15_SelectorPriority ==
    dc_stage = 2 =>
        LET es == dc_in.regions
            Priority == <<"main", "article", "[role=main]", ".content", "#content",
                          ".post", ".entry-content">>
            Matches(name) == {e \in 1..Len(es) : name \in es[e]}
            Least(S) == CHOOSE x \in S : \A y \in S : x <= y
            Within(e) == SelectSeq(dc_clean, LAMBDA n : e \in n.anc)
        IN  /\ \A k \in 1..7 :
                  (Matches(Priority[k]) # {} /\ \A j \in 1..(k - 1) : Matches(Priority[j]) = {})
                      => dc_main = Within(Least(Matches(Priority[k])))
            /\ (\A k \in 1..7 : Matches(Priority[k]) = {}) =>
                  dc_main = (IF Matches("body") # {} THEN Within(Least(Matches("body")))
                             ELSE dc_clean)

C15_Witness ==
    /\ dc_stage = 2
    /\ dc_in.regions = <<{"article"}, {"main"}>>
    /\ Len(dc_in.nodes) = 3
    /\ dc_in.nodes[3].anc = {2}
    /\ dc_main = <<dc_in.nodes[3]>>

\* C17: after clean_html the document holds no script, style, meta or link
\* element and no comment node, inside an element or outside, and every other
\* node is where it was.
C17_CleanRemovesNoiseOnly ==
    dc_stage >= 1 =>
        dc_clean = SelectSeq(dc_in.nodes,
                             LAMBDA n : n.tag \notin {"script", "style", "meta", "link",
                                                      "#comment"})

\* the attribute an image is to be taken from: src, else data-src, else
\* data-actualsrc
LazySource(img) ==
    IF img.src # [kind |-> "none"] THEN img.src
    ELSE IF img.data_src # [kind |-> "none"] THEN img.data_src
    ELSE img.data_actualsrc

\* C16: every image that process_images has handled was taken from its src, or
\* without one from data-src, or without that from data-actualsrc: with such a
\* source it was requested, and on a 200 saved and its src set to the local
\* path; with none of the three it was skipped and left as it was.
C16_LazyLoadSources ==
    \A p \in Calls :
        \A k \in 1..Len(outcome[p]) :
            (soup[p][k].tag = "img" /\ outcome[p][k] # "pending") =>
                IF LazySource(Orig(p)[k]) = [kind |-> "none"]
                THEN outcome[p][k] = "skipped" /\ soup[p][k] = Orig(p)[k]
                ELSE /\ outcome[p][k] # "skipped"
                     /\ outcome[p][k] = "200" => soup[p][k].src.kind = "local"

\* an image whose handling has ended: skipped, saved, or failed and caught
Handled(p, k) == outcome[p][k] \in {"skipped", "200", "error", "noreq"}

\* C18: the images are handled one at a time in document order, an image being
\* started only when every image before it has ended (saved, failed or
\* skipped); the requests go out in that order, after the page's; and once the
\* call has written to its Markdown file, in full or in part, every image of
\* the document has ended, also in runs that an interrupt or a failure of the
\* page cuts short.
C18_SideEffectsInOrder ==
    \A p \in Calls :
        LET Images == {k \in 1..Len(soup[p]) : soup[p][k].tag = "img"}
            Asked == SelectSeq([k \in 1..Len(soup[p]) |-> k],
                               LAMBDA k : /\ k \in Images
                                          /\ outcome[p][k] \in {"200", "error", "interrupted"})
        IN  /\ \A j, k \in Images :
                  (j < k /\ outcome[p][k] # "pending") => Handled(p, j)
            /\ (requests[p] # <<>> \/ Asked # <<>>) =>
                  requests[p] = <<url[p]>> \o [i \in 1..Len(Asked) |->
                                                 urljoin(url[p], Orig(p)[Asked[i]].src.url)]
            /\ (\E i \in 1..Len(written[p]) : IsMarkdownPath(written[p][i], args[p].output)) =>
                  \A k \in Images : Handled(p, k)

C18_Witness ==
    \E p \in Calls :
        /\ result[p].kind = "returned"
        /\ Len(soup[p]) = 2
        /\ outcome[p][1] = "error" /\ outcome[p][2] = "200"
        /\ Len(requests[p]) = 3
        /\ Len(written[p]) = 2

\* the conversions of the script's loop that have ended with a saved file
Saves == {i \in 1..Len(ended[1]) : ended[1][i].result.kind = "returned"}

\* the state of the filesystem that repeated conversions leave
ConversionsLeaveOneFilePerName ==
    /\ \A i \in 1..Len(ended[1]) : ended[1][i].result.exc # "FileExistsError"
    /\ pc[1] \in {"fetch", "images"} =>
          {[out |-> args[1].output, sub |-> ""], [out |-> args[1].output, sub |-> "images"]}
              \subseteq dirs
    /\ \A f \in files : Cardinality({g \in files : g.path = f.path}) = 1
    /\ result[1].exc # "KeyboardInterrupt" =>
          \A i \in Saves :
              (\A j \in Saves : j > i => ended[1][j].result.path # ended[1][i].result.path) =>
                  \E f \in files : /\ f.path = ended[1][i].result.path[1]
                                   /\ f.data = ended[1][i].data

\* no step removes a directory or a file
KeptInPlace ==
    /\ dirs \subseteq dirs'
    /\ \A f \in files : \E g \in files' : g.path = f.path

\* C11: constructing converters and converting repeatedly against the same
\* output directory never raises because a directory exists; the directories
\* exist after construction; no step removes a directory or a file; and there
\* is one file per output name, which holds the content of the last conversion
\* saved under that name.
C11_RepeatedConversionsSafe ==
    /\ []ConversionsLeaveOneFilePerName
    /\ [][KeptInPlace]_vars

C11_Witness ==
    /\ Len(ended[1]) = 2
    /\ Saves = {1, 2}
    /\ ended[1][1].result.path = ended[1][2].result.path
    /\ ended[1][1].data # ended[1][2].data
    /\ \E f \in files : f.path = ended[1][2].result.path[1] /\ f.data = ended[1][2].data
    /\ \E f \in files : f.data = [kind |-> "bytes", of |-> AbsImg]

\* C12: in a run of the loop that no interrupt ends, every pair of the
\* sequence is converted or fails on its own: a failed page fetch is raised to
\* the caller for its pair, and the pairs after it are converted all the same.
C12_FailedFetchAbortsOnlyItsPair ==
    (pc[1] = "exited" /\ url_list # <<>> /\ result[1].exc # "KeyboardInterrupt") =>
        /\ Len(ended[1]) = Len(url_list)
        /\ \A i \in 1..Len(ended[1]) :
              ended[1][i].result.kind = "raised" =>
                  ended[1][i].result.exc = "RequestException"

====
